---- MODULE Spec2Model ----
(***************************************************************************)
(* Model of the segmented event log of pydistributed/event_source:        *)
(* IndexFile (index_file.py), LogFile (log_file.py) and EventSource        *)
(* (eventsource.py).  The disk is a pair of maps from segment base offset  *)
(* to the content of <base>.log (a sequence of records) and <base>.index   *)
(* (a sequence of entries).  One EventSource instance at a time is alive;  *)
(* Reopen drops it and constructs a new one on the same directory.         *)
(*                                                                         *)
(* A record is [offset, size, data]: the 20 byte metadata (offset,         *)
(* timestamp, payload size) followed by the payload.  The timestamp is     *)
(* time.time_ns() and is read by no decision of the code; it is left out.  *)
(* A payload is [size, body]: its length in bytes and its content.         *)
(***************************************************************************)
EXTENDS Integers, Sequences, FiniteSets, TLC

\* ---------------------------------------------------------------- constants
META_DATA_SIZE == 20

MAX_MESSAGE_SIZE == 65536

\* Python's None for last_offset and last_index_size (both are >= 0 otherwise)
None == -1

DEFAULT_INDEX_INTERVAL == 4096

\* ------------------------------------------------------------------- bounds
MaxWrites == 3

MaxRollovers == 2

MaxReopens == 1

MaxBatch == 2

\* close/reopen cycles of CycleSpec
MaxCycles == 2

\* records on the disks of FnSpec
MaxFnRecords == 4

\* values of the constructor's max_log_size and index_interval
MaxLogSizes == {100, 65600}

IndexIntervals == {30}

\* payloads handed to write: 10 and 40 byte payloads (30 and 60 byte records),
\* the largest legal payload and the smallest illegal one
Payloads ==
    { [size |-> 10, body |-> "a"], [size |-> 40, body |-> "b"],
      [size |-> MAX_MESSAGE_SIZE, body |-> "c"],
      [size |-> MAX_MESSAGE_SIZE + 1, body |-> "d"] }

VARIABLES
    logs,              \* disk: base offset -> records of <base>.log
    indexes,           \* disk: base offset -> entries of <base>.index
    max_log_size,      \* EventSource.max_log_size
    index_interval,    \* EventSource.index_interval
    last_offset,       \* EventSource.__last_offset
    log_files,         \* EventSource._log_files
    current_log_file,  \* EventSource.__current_log_file: [base, last_index_size]
    pc,                \* "idle"; "write": inside the loop of write; "diverged":
                       \* in a call that never returns; "failed": constructor
                       \* raised; "stopped": the process ended inside _write
    next_offset,       \* local of write
    payload,           \* argument of write
    rollovers,         \* times the except branch of the running write was taken
    ret,               \* outcome of the last completed call
    hist,              \* all successful writes, oldest first: [offset, payload]
    assigned,          \* offsets assigned by this instance's successful writes
    reopens,           \* number of instances constructed after the first
    pre_bases,         \* bases of the .log files found on disk by the constructor
    reader             \* a second EventSource on the directory, in a process of
                       \* its own: [pc, log_files]; pc "none" before it exists

vars == << logs, indexes, max_log_size, index_interval, last_offset, log_files,
           current_log_file, pc, next_offset, payload, rollovers, ret, hist,
           assigned, reopens, pre_bases, reader >>

\* -------------------------------------------------------------- file layout
RECURSIVE FileSize(_)
FileSize(log) ==
    IF log = << >> THEN 0
    ELSE META_DATA_SIZE + Head(log).size + FileSize(Tail(log))

\* byte position of the metadata of the i-th record (1-based) of a log
PosOfRecord(log, i) == FileSize(SubSeq(log, 1, i - 1))

\* the record index a seek to byte position pos lands on; Len(log) + 1 is EOF
RecordAtPos(log, pos) ==
    IF pos >= FileSize(log) THEN Len(log) + 1
    ELSE CHOOSE i \in 1..Len(log) : PosOfRecord(log, i) = pos

WriteFile(files, base, content) ==
    [b \in (DOMAIN files) \cup {base} |-> IF b = base THEN content ELSE files[b]]

RECURSIVE SortedSeq(_)
SortedSeq(S) ==
    IF S = {} THEN << >>
    ELSE LET m == CHOOSE x \in S : \A y \in S : x <= y
         IN << m >> \o SortedSeq(S \ {m})

Result(exc, val) == [exc |-> exc, val |-> val]

\* ---------------------------------------------------------------- IndexFile
\* IndexFile.write putting the entry at the head of the file
IndexFile_write_AtHead(idx_files, base, relative_offset, physical_position) ==
    LET old == IF base \in DOMAIN idx_files THEN idx_files[base] ELSE << >>
    IN WriteFile(idx_files, base,
                 << [rel |-> relative_offset, pos |-> physical_position] >> \o old)

\* IndexFile.write: the file is opened "ab+", the entry goes to its end
IndexFile_write(idx_files, base, relative_offset, physical_position) ==
    LET old == IF base \in DOMAIN idx_files THEN idx_files[base] ELSE << >>
    IN WriteFile(idx_files, base,
                 Append(old, [rel |-> relative_offset, pos |-> physical_position]))


\* the loop of IndexFile.search returning the entry at ceil_index where the
\* target lies between the probe and the ceil
RECURSIVE IndexFile_search_loop_Ceil(_, _, _, _)
IndexFile_search_loop_Ceil(idx, floor_index, ceil_index, relative_offset) ==
    LET current_index == (floor_index + ceil_index) \div 2
        current == idx[current_index + 1]
    IN IF current.rel = relative_offset THEN Result("ok", current)
       ELSE IF current.rel > relative_offset /\ current_index = floor_index + 1
       THEN Result("ok", idx[floor_index + 1])
       ELSE IF current.rel > relative_offset
       THEN IF current_index = ceil_index THEN Result("NoReturn", current)
            ELSE IndexFile_search_loop_Ceil(idx, floor_index, current_index,
                                            relative_offset)
       ELSE IF current_index = ceil_index - 1
       THEN Result("ok", idx[ceil_index + 1])
       ELSE IF current_index = floor_index THEN Result("NoReturn", current)
       ELSE IndexFile_search_loop_Ceil(idx, current_index, ceil_index,
                                       relative_offset)

\* IndexFile.search, the loop of lines 58-87 on the entries idx with the
\* 0-based bounds floor_index and ceil_index.  The loop reads an immutable file
\* and its only state is (floor_index, ceil_index): an iteration that leaves
\* both unchanged repeats for ever, which is the outcome "NoReturn".
RECURSIVE IndexFile_search_loop(_, _, _, _)
IndexFile_search_loop(idx, floor_index, ceil_index, relative_offset) ==
    LET current_index == (floor_index + ceil_index) \div 2
        current == idx[current_index + 1]
    IN IF current.rel = relative_offset THEN Result("ok", current)
       ELSE IF current.rel > relative_offset /\ current_index = floor_index + 1
       THEN Result("ok", idx[floor_index + 1])
       ELSE IF current.rel > relative_offset
       THEN IF current_index = ceil_index THEN Result("NoReturn", current)
            ELSE IndexFile_search_loop(idx, floor_index, current_index,
                                       relative_offset)
       ELSE IF current_index = ceil_index - 1 THEN Result("ok", current)
       ELSE IF current_index = floor_index THEN Result("NoReturn", current)
       ELSE IndexFile_search_loop(idx, current_index, ceil_index,
                                  relative_offset)

NoEntry == [rel |-> 0, pos |-> 0]

\* the test of IndexFile.search before its loop
BelowFirstEntryOrEqual(floor_off, relative_offset) == floor_off >= relative_offset

BelowFirstEntry(floor_off, relative_offset) == floor_off > relative_offset

IndexFile_search(base, relative_offset) ==
    IF base \notin DOMAIN indexes THEN Result("FileNotFoundError", NoEntry)
    ELSE IF indexes[base] = << >> THEN Result("struct.error", NoEntry)
    ELSE IF BelowFirstEntry(indexes[base][1].rel, relative_offset)
    THEN Result("OffsetMissingInIndex", NoEntry)
    ELSE IndexFile_search_loop(indexes[base], 0, Len(indexes[base]) - 1,
                               relative_offset)

\* ------------------------------------------------------------------ LogFile
\* the size test of LogFile.write
TooLargeOffByOne(p) == p.size >= MAX_MESSAGE_SIZE

TooLarge(p) == p.size > MAX_MESSAGE_SIZE

\* the index test of LogFile._write without an entry for a first append
NeedsIndexEntryNotFirst(last_index_size, log_size, interval) ==
    last_index_size # None /\ log_size > last_index_size + interval

NeedsIndexEntry(last_index_size, log_size, interval) ==
    last_index_size = None \/ log_size > last_index_size + interval

\* the size test of LogFile._write counting the metadata twice
ExceedsCountingMetadataTwice(pre_log_size, p, mls) ==
    pre_log_size + 2 * META_DATA_SIZE + p.size > mls

\* the size test of LogFile._write on the payload alone
ExceedsWithoutMetadata(pre_log_size, p, mls) == pre_log_size + p.size > mls

Exceeds(pre_log_size, p, mls) == pre_log_size + META_DATA_SIZE + p.size > mls

\* LogFile._write indexing the size after the append, not the one before it
LogFile__write_IndexAtEnd(lf, offset, p) ==
    LET old == IF lf.base \in DOMAIN logs THEN logs[lf.base] ELSE << >>
        pre_log_size == FileSize(old)
        log_size == pre_log_size + META_DATA_SIZE + p.size
        new == Append(old, [offset |-> offset, size |-> p.size, data |-> p.body])
        indexed == NeedsIndexEntry(lf.last_index_size, log_size, index_interval)
    IN IF Exceeds(pre_log_size, p, max_log_size)
       THEN [exc |-> "LogSizeExceeded", logs |-> WriteFile(logs, lf.base, old),
             indexes |-> indexes, lf |-> lf]
       ELSE [exc |-> "ok", logs |-> WriteFile(logs, lf.base, new),
             indexes |-> IF indexed
                         THEN IndexFile_write(indexes, lf.base,
                                              offset - lf.base, log_size)
                         ELSE indexes,
             lf |-> IF indexed THEN [lf EXCEPT !.last_index_size = log_size]
                    ELSE lf]

\* LogFile._write with the size test after the append
LogFile__write_TestAfterAppend(lf, offset, p) ==
    LET old == IF lf.base \in DOMAIN logs THEN logs[lf.base] ELSE << >>
        pre_log_size == FileSize(old)
        log_size == pre_log_size + META_DATA_SIZE + p.size
        new == Append(old, [offset |-> offset, size |-> p.size, data |-> p.body])
        indexed == NeedsIndexEntry(lf.last_index_size, log_size, index_interval)
    IN IF Exceeds(pre_log_size, p, max_log_size)
       THEN [exc |-> "LogSizeExceeded", logs |-> WriteFile(logs, lf.base, new),
             indexes |-> indexes, lf |-> lf]
       ELSE [exc |-> "ok", logs |-> WriteFile(logs, lf.base, new),
             indexes |-> IF indexed
                         THEN IndexFile_write(indexes, lf.base,
                                              offset - lf.base, pre_log_size)
                         ELSE indexes,
             lf |-> IF indexed THEN [lf EXCEPT !.last_index_size = log_size]
                    ELSE lf]

\* LogFile._write: open(..., "ab+") creates the .log file before the size test
LogFile__write(lf, offset, p) ==
    LET old == IF lf.base \in DOMAIN logs THEN logs[lf.base] ELSE << >>
        pre_log_size == FileSize(old)
        log_size == pre_log_size + META_DATA_SIZE + p.size
        new == Append(old, [offset |-> offset, size |-> p.size, data |-> p.body])
        indexed == NeedsIndexEntry(lf.last_index_size, log_size, index_interval)
    IN IF Exceeds(pre_log_size, p, max_log_size)
       THEN [exc |-> "LogSizeExceeded", logs |-> WriteFile(logs, lf.base, old),
             indexes |-> indexes, lf |-> lf]
       ELSE [exc |-> "ok", logs |-> WriteFile(logs, lf.base, new),
             indexes |-> IF indexed
                         THEN IndexFile_write(indexes, lf.base,
                                              offset - lf.base, pre_log_size)
                         ELSE indexes,
             lf |-> IF indexed THEN [lf EXCEPT !.last_index_size = log_size]
                    ELSE lf]

LogFile_write(lf, offset, p) ==
    IF TooLarge(p)
    THEN [exc |-> "ValueError", logs |-> logs, indexes |-> indexes, lf |-> lf]
    ELSE LogFile__write(lf, offset, p)

\* a LogFile whose files are named after the offset following absolute_offset
NewLogFileOffByOne(base) == [base |-> base + 1, last_index_size |-> None]

\* LogFile.__init__
NewLogFile(base) == [base |-> base, last_index_size |-> None]

\* the loop of get_last_offset stopping at the record the index entry points at
WalkToEndOneStep(log, i, last) == IF i > Len(log) THEN last ELSE i

RECURSIVE WalkToEnd(_, _, _)
WalkToEnd(log, i, last) ==
    IF i > Len(log) THEN last ELSE WalkToEnd(log, i + 1, i)

\* returns the offset the last index entry points at, without the walk to EOF
LogFile_get_last_offset_NoWalk(base) ==
    IF base \notin DOMAIN indexes THEN Result("FileNotFoundError", None)
    ELSE IF indexes[base] = << >> THEN Result("OSError", None)
    ELSE LET e == indexes[base][Len(indexes[base])]
         IN Result("ok", base + e.rel)

\* LogFile.get_last_offset: from the last index entry, walk the records to EOF
LogFile_get_last_offset(base) ==
    IF base \notin DOMAIN indexes THEN Result("FileNotFoundError", None)
    ELSE IF indexes[base] = << >> THEN Result("OSError", None)
    ELSE LET e == indexes[base][Len(indexes[base])]
             log == logs[base]
             first == RecordAtPos(log, e.pos)
             last == WalkToEnd(log, first, first)
         IN IF last > Len(log) THEN Result("struct.error", None)
            ELSE Result("ok", log[last].offset)


\* LogFile._scan_for_message from the record index i on
RECURSIVE LogFile__scan_for_message(_, _, _, _, _)
LogFile__scan_for_message(log, i, offset, offset_last, results) ==
    IF i > Len(log) THEN results
    ELSE IF log[i].offset = offset_last THEN Append(results, log[i])
    ELSE IF log[i].offset >= offset
    THEN LogFile__scan_for_message(log, i + 1, offset, offset_last,
                                   Append(results, log[i]))
    ELSE LogFile__scan_for_message(log, i + 1, offset, offset_last, results)

\* LogFile.get(offset, offset_end); EventSource._get always passes offset_end
LogFile_get(base, offset, offset_end) ==
    LET start == IndexFile_search(base, offset - base)
        end == IF offset_end = -1 \/ offset_end = offset THEN Result("ok", NoEntry)
               ELSE IndexFile_search(base, offset_end - base)
    IN IF start.exc # "ok" THEN Result(start.exc, << >>)
       ELSE IF end.exc # "ok" THEN Result(end.exc, << >>)
       ELSE IF base \notin DOMAIN logs THEN Result("FileNotFoundError", << >>)
       ELSE Result("ok", LogFile__scan_for_message(
                            logs[base], RecordAtPos(logs[base], start.val.pos),
                            offset, offset_end, << >>))

\* -------------------------------------------------------------- EventSource
\* EventSource.write line 100
NextOffsetStale(lo) == IF lo = None THEN 0 ELSE lo

NextOffset(lo) == IF lo = None THEN 0 ELSE lo + 1

\* the except clause of EventSource.write
CatchesNothing(exc) == FALSE

Catches(exc) == exc = "LogSizeExceeded"

EventSource__get_log_initial_indexes == SortedSeq(DOMAIN logs)

\* no second instance has been constructed
NoReader == [pc |-> "none", log_files |-> << >>]

Init ==
    /\ logs = << >>
    /\ indexes = << >>
    /\ max_log_size \in MaxLogSizes
    /\ index_interval \in IndexIntervals
    /\ last_offset = None
    /\ log_files = << 0 >>
    /\ current_log_file = NewLogFile(0)
    /\ pc = "idle"
    /\ next_offset = 0
    /\ payload = [size |-> 0, body |-> "a"]
    /\ rollovers = 0
    /\ ret = [op |-> "init", a |-> 0, n |-> 0, exc |-> "ok", val |-> << >>]
    /\ hist = << >>
    /\ assigned = << >>
    /\ reopens = 0
    /\ pre_bases = {}
    /\ reader = NoReader

\* EventSource.write, entry: line 100
Write(p) ==
    /\ pc = "idle"
    /\ Len(hist) < MaxWrites
    /\ pc' = "write"
    /\ payload' = p
    /\ next_offset' = NextOffset(last_offset)
    /\ rollovers' = 0
    /\ UNCHANGED << logs, indexes, max_log_size, index_interval, last_offset,
                    log_files, current_log_file, ret, hist, assigned, reopens,
                    pre_bases >>
    /\ UNCHANGED reader

\* EventSource.write, one iteration of the while loop: lines 101-114
WriteLoop ==
    /\ pc = "write"
    /\ LET r == LogFile_write(current_log_file, next_offset, payload)
       IN IF r.exc = "ok"
          THEN /\ logs' = r.logs
               /\ indexes' = r.indexes
               /\ current_log_file' = r.lf
               /\ last_offset' = next_offset
               /\ pc' = "idle"
               /\ ret' = [op |-> "write", a |-> next_offset, n |-> 0,
                          exc |-> "ok", val |-> << >>]
               /\ hist' = Append(hist, [offset |-> next_offset,
                                        payload |-> payload])
               /\ assigned' = Append(assigned, next_offset)
               /\ UNCHANGED << log_files, rollovers >>
          ELSE IF Catches(r.exc)
          THEN /\ rollovers < MaxRollovers
               /\ logs' = r.logs
               /\ indexes' = r.indexes
               /\ log_files' = Append(log_files, next_offset)
               /\ current_log_file' = NewLogFile(next_offset)
               /\ rollovers' = rollovers + 1
               /\ UNCHANGED << last_offset, pc, ret, hist, assigned >>
          ELSE /\ logs' = r.logs
               /\ indexes' = r.indexes
               /\ pc' = "idle"
               /\ ret' = [op |-> "write", a |-> next_offset, n |-> 0,
                          exc |-> r.exc, val |-> << >>]
               /\ UNCHANGED << log_files, current_log_file, last_offset,
                               rollovers, hist, assigned >>
    /\ UNCHANGED << max_log_size, index_interval, next_offset, payload,
                    reopens, pre_bases >>
    /\ UNCHANGED reader

\* _initialise_logs opening the first listed segment
ActiveBaseFirst(files) == files[1]

\* _initialise_logs: the segment opened as the active one is files[-1]
ActiveBase(files) == files[Len(files)]

\* EventSource.__init__(log_store_path, mls, ii) with _initialise_logs
EventSource__init__(mls, ii) ==
    /\ LET files == EventSource__get_log_initial_indexes
       IN IF Len(files) = 0
          THEN /\ last_offset' = None
               /\ current_log_file' = NewLogFile(0)
               /\ log_files' = << 0 >>
               /\ pc' = "idle"
               /\ ret' = [op |-> "init", a |-> 0, n |-> 0, exc |-> "ok",
                          val |-> << >>]
          ELSE LET r == LogFile_get_last_offset(ActiveBase(files))
               IN /\ last_offset' = r.val
                  /\ current_log_file' = NewLogFile(ActiveBase(files))
                  /\ log_files' = << >>
                  /\ pc' = IF r.exc = "ok" THEN "idle" ELSE "failed"
                  /\ ret' = [op |-> "init", a |-> 0, n |-> 0, exc |-> r.exc,
                             val |-> << >>]
    /\ max_log_size' = mls
    /\ index_interval' = ii
    /\ assigned' = << >>
    /\ reopens' = reopens + 1
    /\ pre_bases' = DOMAIN logs
    /\ UNCHANGED << logs, indexes, next_offset, payload, rollovers, hist >>
    /\ UNCHANGED reader

\* the instance is dropped and EventSource(log_store_path, mls, ii) constructed
Construct(mls, ii) ==
    /\ pc = "idle"
    /\ EventSource__init__(mls, ii)

Reopen(mls, ii) ==
    /\ reopens < MaxReopens
    /\ Construct(mls, ii)

\* the list _scan_log_files works on: refreshed from the disk when empty
RefreshedLogFiles ==
    IF Len(log_files) = 0 THEN EventSource__get_log_initial_indexes
    ELSE log_files

\* the for loop of _scan_log_files from the 1-based position i on;
\* log_files[idx - 1] with idx = 0 is Python's log_files[-1], the last element
RECURSIVE ScanLoop(_, _, _, _, _)
ScanLoop(lfs, i, offset, end_offset, log_indexes) ==
    IF i > Len(lfs) THEN log_indexes
    ELSE LET file_index == lfs[i]
             previous == IF i = 1 THEN lfs[Len(lfs)] ELSE lfs[i - 1]
             with_prev == IF file_index >= offset /\ file_index # offset
                          THEN Append(log_indexes, previous) ELSE log_indexes
             with_last == IF file_index >= offset /\ file_index <= end_offset
                             /\ i = Len(lfs)
                          THEN Append(with_prev, file_index) ELSE with_prev
         IN IF file_index > end_offset THEN with_last
            ELSE ScanLoop(lfs, i + 1, offset, end_offset, with_last)

EventSource__scan_log_files(lfs, offset, end_offset) ==
    ScanLoop(lfs, 1, offset, end_offset, << >>)

\* the for loop of _get over several selected segments, from position i on
RECURSIVE GetLoop(_, _, _, _, _)
GetLoop(log_file_indexes, i, offset, final_offset, results) ==
    IF i > Len(log_file_indexes) THEN Result("ok", results)
    ELSE LET log_file_index == log_file_indexes[i]
             start_offset == IF log_file_index > offset THEN log_file_index
                             ELSE offset
             end_offset == IF i < Len(log_file_indexes) THEN -1
                           ELSE final_offset
             log_result == LogFile_get(log_file_index, start_offset, end_offset)
         IN IF log_result.exc # "ok" THEN log_result
            ELSE GetLoop(log_file_indexes, i + 1, offset, final_offset,
                         results \o log_result.val)

\* EventSource._get on an instance whose _log_files, refreshed, is lfs
EventSource__get_on(lfs, offset, number_of_results) ==
    LET final_offset == offset - 1 + number_of_results
        log_file_indexes ==
            EventSource__scan_log_files(lfs, offset, final_offset)
    IN IF Len(log_file_indexes) = 0 THEN Result("CouldNotFindOffset", << >>)
       ELSE IF Len(log_file_indexes) = 1
       THEN LogFile_get(log_file_indexes[1], offset, final_offset)
       ELSE GetLoop(log_file_indexes, 1, offset, final_offset, << >>)

EventSource__get(offset, number_of_results) ==
    EventSource__get_on(RefreshedLogFiles, offset, number_of_results)

\* EventSource.get: Event.from_tuple(self._get(offset, 1)[0])
Get(offset) ==
    /\ pc = "idle"
    /\ LET r == EventSource__get(offset, 1)
           out == IF r.exc # "ok" THEN r
                  ELSE IF r.val = << >> THEN Result("IndexError", << >>)
                  ELSE Result("ok", << r.val[1] >>)
       IN /\ ret' = [op |-> "get", a |-> offset, n |-> 1, exc |-> out.exc,
                     val |-> out.val]
          /\ pc' = IF out.exc = "NoReturn" THEN "diverged" ELSE "idle"
    /\ log_files' = RefreshedLogFiles
    /\ UNCHANGED << logs, indexes, max_log_size, index_interval, last_offset,
                    current_log_file, next_offset, payload, rollovers, hist,
                    assigned, reopens, pre_bases >>
    /\ UNCHANGED reader

\* EventSource.get_batch
GetBatch(offset, number_batch) ==
    /\ pc = "idle"
    /\ LET r == EventSource__get(offset, number_batch)
       IN /\ ret' = [op |-> "get_batch", a |-> offset, n |-> number_batch,
                     exc |-> r.exc, val |-> r.val]
          /\ pc' = IF r.exc = "NoReturn" THEN "diverged" ELSE "idle"
    /\ log_files' = RefreshedLogFiles
    /\ UNCHANGED << logs, indexes, max_log_size, index_interval, last_offset,
                    current_log_file, next_offset, payload, rollovers, hist,
                    assigned, reopens, pre_bases >>
    /\ UNCHANGED reader

Next ==
    \/ \E p \in Payloads : Write(p)
    \/ WriteLoop
    \/ \E mls \in MaxLogSizes, ii \in IndexIntervals : Reopen(mls, ii)
    \/ \E k \in 0..MaxWrites : Get(k)
    \/ \E o \in 0..MaxWrites, n \in 0..MaxBatch : GetBatch(o, n)

Spec == Init /\ [][Next]_vars

\* ---------------------------------------------------------------------------
\* Writes and close/reopen cycles with the default index interval and the
\* constructor arguments kept over the cycles.
InitCycles ==
    /\ logs = << >>
    /\ indexes = << >>
    /\ max_log_size \in MaxLogSizes
    /\ index_interval = DEFAULT_INDEX_INTERVAL
    /\ last_offset = None
    /\ log_files = << 0 >>
    /\ current_log_file = NewLogFile(0)
    /\ pc = "idle"
    /\ next_offset = 0
    /\ payload = [size |-> 0, body |-> "a"]
    /\ rollovers = 0
    /\ ret = [op |-> "init", a |-> 0, n |-> 0, exc |-> "ok", val |-> << >>]
    /\ hist = << >>
    /\ assigned = << >>
    /\ reopens = 0
    /\ pre_bases = {}
    /\ reader = NoReader

ReopenSame ==
    /\ reopens < MaxCycles
    /\ Construct(max_log_size, index_interval)

NextCycles ==
    \/ \E p \in Payloads : Write(p)
    \/ WriteLoop
    \/ ReopenSame

CycleSpec == InitCycles /\ [][NextCycles]_vars

\* ---------------------------------------------------------------------------
\* _scan_log_files, IndexFile.search and LogFile.get applied to the disks the
\* engine leaves behind: n records of 10 byte payloads with offsets 0..n-1,
\* cut into segments at the bases B (max_log_size decides where a rollover
\* happens and is an argument of every constructor), with an index entry for
\* the records X: the first record of every segment, and any other (the first
\* append of an instance always writes one, a large index_interval none).
\* The instance is the one a constructor builds on that directory.
SegmentEnd(B, b, n) ==
    IF \E c \in B : c > b
    THEN (CHOOSE c \in B : c > b /\ \A d \in B : d > b => c <= d) - 1
    ELSE n - 1

FnLogs(B, n) ==
    [b \in B |-> [i \in 1..(SegmentEnd(B, b, n) - b + 1) |->
                    [offset |-> b + i - 1, size |-> 10, data |-> "a"]]]

FnIndexEntries(xs, b) ==
    [i \in 1..Len(xs) |-> [rel |-> xs[i] - b,
                           pos |-> (xs[i] - b) * (META_DATA_SIZE + 10)]]

FnIndexes(B, X, n) ==
    [b \in B |-> FnIndexEntries(
                    SortedSeq({x \in X : b <= x /\ x <= SegmentEnd(B, b, n)}), b)]

InitFn ==
    \E n \in 1..MaxFnRecords :
      \E B \in SUBSET (0..(n - 1)) :
        \E X \in SUBSET (0..(n - 1)) :
          /\ 0 \in B
          /\ B \subseteq X
          /\ logs = FnLogs(B, n)
          /\ indexes = FnIndexes(B, X, n)
          /\ max_log_size = 100
          /\ index_interval = DEFAULT_INDEX_INTERVAL
          /\ last_offset = n - 1
          /\ log_files = << >>
          /\ current_log_file =
                NewLogFile(CHOOSE b \in B : \A c \in B : c <= b)
          /\ pc = "idle"
          /\ next_offset = 0
          /\ payload = [size |-> 0, body |-> "a"]
          /\ rollovers = 0
          /\ ret = [op |-> "init", a |-> 0, n |-> 0, exc |-> "ok",
                    val |-> << >>]
          /\ hist = [i \in 1..n |-> [offset |-> i - 1,
                                     payload |-> [size |-> 10, body |-> "a"]]]
          /\ assigned = << >>
          /\ reopens = 1
          /\ pre_bases = B
          /\ reader = NoReader

\* EventSource._scan_log_files(offset, end_offset)
ScanLogFiles(offset, end_offset) ==
    /\ pc = "idle"
    /\ ret' = [op |-> "scan", a |-> offset, n |-> end_offset, exc |-> "ok",
               val |-> EventSource__scan_log_files(RefreshedLogFiles, offset,
                                                   end_offset)]
    /\ log_files' = RefreshedLogFiles
    /\ UNCHANGED << logs, indexes, max_log_size, index_interval, last_offset,
                    current_log_file, pc, next_offset, payload, rollovers, hist,
                    assigned, reopens, pre_bases >>
    /\ UNCHANGED reader

\* IndexFile.search(relative_offset) on the index of the segment base
IndexSearch(base, relative_offset) ==
    /\ pc = "idle"
    /\ base \in DOMAIN indexes
    /\ LET r == IndexFile_search(base, relative_offset)
       IN /\ ret' = [op |-> "search", a |-> relative_offset, n |-> base,
                     exc |-> r.exc,
                     val |-> IF r.exc = "ok" THEN << r.val >> ELSE << >>]
          /\ pc' = IF r.exc = "NoReturn" THEN "diverged" ELSE "idle"
    /\ UNCHANGED << logs, indexes, max_log_size, index_interval, last_offset,
                    log_files, current_log_file, next_offset, payload,
                    rollovers, hist, assigned, reopens, pre_bases >>
    /\ UNCHANGED reader

\* LogFile(log_store_path, base).get(offset), offset_end left to its default
LogGet(base, offset) ==
    /\ pc = "idle"
    /\ base \in DOMAIN logs
    /\ LET r == LogFile_get(base, offset, offset)
       IN /\ ret' = [op |-> "log_get", a |-> offset, n |-> base,
                     exc |-> r.exc, val |-> r.val]
          /\ pc' = IF r.exc = "NoReturn" THEN "diverged" ELSE "idle"
    /\ UNCHANGED << logs, indexes, max_log_size, index_interval, last_offset,
                    log_files, current_log_file, next_offset, payload,
                    rollovers, hist, assigned, reopens, pre_bases >>
    /\ UNCHANGED reader

NextFn ==
    \/ \E o \in 0..MaxFnRecords, e \in 0..MaxFnRecords : ScanLogFiles(o, e)
    \/ \E b \in 0..MaxFnRecords, t \in (-1)..MaxFnRecords : IndexSearch(b, t)
    \/ \E b \in 0..MaxFnRecords, o \in 0..MaxFnRecords : LogGet(b, o)

FnSpec == InitFn /\ [][NextFn]_vars

\* ---------------------------------------------------------------------------
\* LogFile.get_last_offset and LogFile.get with an explicit offset_end applied
\* to the segments of the disks of InitFn.
GetLastOffset(base) ==
    /\ pc = "idle"
    /\ base \in DOMAIN logs
    /\ LET r == LogFile_get_last_offset(base)
       IN ret' = [op |-> "get_last_offset", a |-> 0, n |-> base,
                  exc |-> r.exc,
                  val |-> IF r.exc = "ok" THEN << r.val >> ELSE << >>]
    /\ UNCHANGED << logs, indexes, max_log_size, index_interval, last_offset,
                    log_files, current_log_file, pc, next_offset, payload,
                    rollovers, hist, assigned, reopens, pre_bases, reader >>

\* LogFile(log_store_path, base).get(offset, offset_end), offset_end >= 0
LogGetRange(base, offset, offset_end) ==
    /\ pc = "idle"
    /\ base \in DOMAIN logs
    /\ LET r == LogFile_get(base, offset, offset_end)
       IN /\ ret' = [op |-> "log_get_range", a |-> offset, n |-> base,
                     e |-> offset_end, exc |-> r.exc, val |-> r.val]
          /\ pc' = IF r.exc = "NoReturn" THEN "diverged" ELSE "idle"
    /\ UNCHANGED << logs, indexes, max_log_size, index_interval, last_offset,
                    log_files, current_log_file, next_offset, payload,
                    rollovers, hist, assigned, reopens, pre_bases, reader >>

NextSegment ==
    \/ \E b \in 0..MaxFnRecords : GetLastOffset(b)
    \/ \E b \in 0..MaxFnRecords, o \in 0..MaxFnRecords,
          e \in 0..MaxFnRecords : LogGetRange(b, o, e)

SegmentSpec == InitFn /\ [][NextSegment]_vars

\* ---------------------------------------------------------------------------
\* A writer that stops inside LogFile._write, after the record reached the
\* .log file (line 55) and before the index entry it calls for is written
\* (line 61), and a new instance constructed on the directory afterwards.
StopInWrite ==
    /\ pc = "write"
    /\ reopens < MaxCycles
    /\ LET r == LogFile_write(current_log_file, next_offset, payload)
       IN /\ r.exc = "ok"
          /\ r.indexes # indexes
          /\ logs' = r.logs
    /\ pc' = "stopped"
    /\ UNCHANGED << indexes, max_log_size, index_interval, last_offset,
                    log_files, current_log_file, next_offset, payload,
                    rollovers, ret, hist, assigned, reopens, pre_bases, reader >>

Restart ==
    /\ pc = "stopped"
    /\ EventSource__init__(max_log_size, index_interval)

NextStop ==
    \/ \E p \in Payloads : Write(p)
    \/ WriteLoop
    \/ StopInWrite
    \/ Restart

StopSpec == Init /\ [][NextStop]_vars

\* ---------------------------------------------------------------------------
\* One writer and a second instance that only reads, on the same directory,
\* each call running from start to end before the other process's next call.
ReaderConstruct ==
    /\ pc = "idle"
    /\ reader.pc = "none"
    /\ LET files == EventSource__get_log_initial_indexes
       IN IF Len(files) = 0
          THEN reader' = [pc |-> "idle", log_files |-> << 0 >>]
          ELSE LET r == LogFile_get_last_offset(ActiveBase(files))
               IN reader' = [pc |-> IF r.exc = "ok" THEN "idle" ELSE "failed",
                             log_files |-> << >>]
    /\ UNCHANGED << logs, indexes, max_log_size, index_interval, last_offset,
                    log_files, current_log_file, pc, next_offset, payload,
                    rollovers, ret, hist, assigned, reopens, pre_bases >>

\* the reader's _log_files after the refresh of _scan_log_files
ReaderRefreshedLogFiles ==
    IF Len(reader.log_files) = 0 THEN EventSource__get_log_initial_indexes
    ELSE reader.log_files

\* get(offset) on the reader
ReaderGet(offset) ==
    /\ pc = "idle"
    /\ reader.pc = "idle"
    /\ LET r == EventSource__get_on(ReaderRefreshedLogFiles, offset, 1)
           out == IF r.exc # "ok" THEN r
                  ELSE IF r.val = << >> THEN Result("IndexError", << >>)
                  ELSE Result("ok", << r.val[1] >>)
       IN /\ ret' = [op |-> "reader_get", a |-> offset, n |-> 1,
                     exc |-> out.exc, val |-> out.val]
          /\ reader' = [pc |-> IF out.exc = "NoReturn" THEN "diverged"
                               ELSE "idle",
                        log_files |-> ReaderRefreshedLogFiles]
    /\ UNCHANGED << logs, indexes, max_log_size, index_interval, last_offset,
                    log_files, current_log_file, pc, next_offset, payload,
                    rollovers, hist, assigned, reopens, pre_bases >>

NextReader ==
    \/ \E p \in Payloads : Write(p)
    \/ WriteLoop
    \/ ReaderConstruct
    \/ \E k \in 0..MaxWrites : ReaderGet(k)

ReaderSpec == Init /\ [][NextReader]_vars

\* ------------------------------------------------------------------- claims
Written(k) == \E i \in 1..Len(hist) : hist[i].offset = k

PayloadAt(k) == hist[CHOOSE i \in 1..Len(hist) : hist[i].offset = k].payload

\* the record a read of offset k has to return
EventOf(k) ==
    [offset |-> k, size |-> PayloadAt(k).size, data |-> PayloadAt(k).body]

\* offsets stored in the segments that were on disk when this instance started
InOldSegment(k) ==
    \E b \in pre_bases : \E i \in 1..Len(logs[b]) : logs[b][i].offset = k

\* C1: within one instance each successful write is assigned the offset of
\* the previous successful write plus one, and the first successful write on
\* an empty store is assigned offset 0.
C1_OffsetMonotonic ==
    /\ \A i \in 2..Len(assigned) : assigned[i] = assigned[i - 1] + 1
    /\ (pre_bases = {} /\ Len(assigned) >= 1) => assigned[1] = 0

C1_Witness ==
    /\ Len(assigned) = 3
    /\ Cardinality(DOMAIN logs) >= 2
    /\ ret.op = "write" /\ ret.exc = "ok" /\ ret.a = 2

\* C2: get(k) of every offset k assigned by a successful write returns the
\* event with offset k, the payload written at k and its size.
C2_RoundTrip ==
    (ret.op = "get" /\ Written(ret.a))
        => (ret.exc = "ok" /\ ret.val = << EventOf(ret.a) >>)

\* C3: get_batch(o, n) with n >= 1 and o..o+n-1 all written returns exactly
\* the n events of offsets o, o+1, ..., o+n-1 in that order.
C3_BatchContiguity ==
    (ret.op = "get_batch" /\ ret.n >= 1
        /\ \A j \in ret.a..(ret.a + ret.n - 1) : Written(j))
        => (ret.exc = "ok"
            /\ ret.val = [i \in 1..ret.n |-> EventOf(ret.a + i - 1)])

\* C4: for every segment base B > 0, get(B - 1) and get(B) return the records
\* written at B - 1 and at B.
C4_BoundaryReads ==
    (ret.op = "get"
        /\ \E B \in DOMAIN logs : B > 0 /\ logs[B] # << >>
                                  /\ ret.a \in {B - 1, B})
        => (ret.exc = "ok" /\ ret.val = << EventOf(ret.a) >>)

\* C5: the first write of an instance constructed on a store that holds
\* records is assigned one plus the last offset written before.
C5_Recovery ==
    (reopens >= 1 /\ Len(assigned) >= 1 /\ Len(hist) > Len(assigned))
        => assigned[1] = hist[Len(hist) - Len(assigned)].offset + 1

C5_Witness ==
    /\ reopens = 1
    /\ Len(assigned) = 1
    /\ Len(hist) >= 3
    /\ Cardinality(DOMAIN logs) >= 2
    /\ ret.op = "write" /\ ret.exc = "ok"

\* C6: after a reopen and one further write, assigned offset m, get(m)
\* returns the event of offset m with the payload just written.
C6_ReadBackAfterRecovery ==
    (reopens >= 1 /\ Len(assigned) = 1 /\ ret.op = "get"
        /\ ret.a = assigned[1])
        => (ret.exc = "ok" /\ ret.val = << EventOf(ret.a) >>)

\* C7: after a reopen on a store that holds segments and a rollover by a
\* later write, get(k) of every offset k stored in a segment that was on disk
\* before the reopen returns the record of offset k.
C7_OldSegmentsReadable ==
    (reopens >= 1 /\ pre_bases # {} /\ current_log_file.base \notin pre_bases
        /\ ret.op = "get" /\ InOldSegment(ret.a))
        => (ret.exc = "ok" /\ ret.val = << EventOf(ret.a) >>)

\* C8: a write of a payload longer than MAX_MESSAGE_SIZE raises ValueError
\* and changes neither the files, the segment list, the active segment nor
\* last_offset, so the next write gets the offset it would have got anyway; a
\* write of at most MAX_MESSAGE_SIZE bytes that returns, returns normally.
C8_OversizeRejected ==
    [][ /\ (pc = "write" /\ payload.size > MAX_MESSAGE_SIZE)
            => /\ pc' = "idle"
               /\ ret'.op = "write" /\ ret'.exc = "ValueError"
               /\ UNCHANGED << logs, indexes, log_files, current_log_file,
                               last_offset >>
               /\ NextOffset(last_offset') = next_offset
        /\ (pc = "write" /\ payload.size <= MAX_MESSAGE_SIZE /\ pc' = "idle")
            => ret'.exc = "ok" ]_vars

C8_Witness ==
    /\ pc = "idle"
    /\ ret.op = "write" /\ ret.exc = "ValueError"
    /\ Len(assigned) >= 2
    /\ Cardinality(DOMAIN logs) >= 2

\* C9: no call returns LogSizeExceeded to its caller; a write that found the
\* active segment full ends with the record in a new active segment.
C9_LogSizeExceededInternal ==
    /\ ret.exc # "LogSizeExceeded"
    /\ (pc = "idle" /\ ret.op = "write" /\ ret.exc = "ok" /\ rollovers >= 1)
        => /\ current_log_file.base = ret.a
           /\ logs[ret.a] = << EventOf(ret.a) >>

C9_Witness ==
    /\ pc = "idle"
    /\ ret.op = "write" /\ ret.exc = "ok"
    /\ rollovers = 1
    /\ ret.a >= 2

\* C10: every write ends after at most one rollover, whatever max_log_size.
C10_WriteTerminates == rollovers <= 1


\* the records of all segments, segments in ascending base order
RECURSIVE ConcatLogs(_)
ConcatLogs(bases) ==
    IF bases = << >> THEN << >>
    ELSE logs[Head(bases)] \o ConcatLogs(Tail(bases))

AllRecords == ConcatLogs(SortedSeq(DOMAIN logs))

\* C12: get and get_batch raise CouldNotFindOffset only when no known segment
\* covers the start offset: when some base of the segment list is <= the
\* requested offset, CouldNotFindOffset is not raised.
C12_CouldNotFindOnlyUncovered ==
    (ret.op \in {"get", "get_batch"} /\ ret.n >= 1
        /\ \E i \in 1..Len(log_files) : log_files[i] <= ret.a)
        => ret.exc # "CouldNotFindOffset"

\* C13: get(k) of an offset that was never written, offset 0 of an empty log
\* included, fails with CouldNotFindOffset and returns no event.
C13_UnwrittenNotFound ==
    (ret.op = "get" /\ ~Written(ret.a))
        => (ret.exc = "CouldNotFindOffset" /\ ret.val = << >>)

\* C15: the records of all segments, in ascending base order and byte order,
\* carry the offsets 0, 1, ..., last_offset, each exactly once.
C15_DenseOrderedLog ==
    /\ \A i \in 1..Len(AllRecords) : AllRecords[i].offset = i - 1
    /\ Len(AllRecords) = 0 => last_offset = None
    /\ Len(AllRecords) > 0 => last_offset = Len(AllRecords) - 1

C15_Witness ==
    /\ pc = "idle"
    /\ reopens = 1
    /\ rollovers = 1
    /\ Len(AllRecords) = 3
    /\ Cardinality(DOMAIN logs) >= 2
    /\ ret.op = "write" /\ ret.exc = "ok"

\* C20: a write that finds the active segment full appends nothing to the
\* old segment, appends exactly one base, next_offset, to the segment list,
\* makes the segment of that base the active one, writes the payload once as
\* its first record and advances last_offset by one.
C20_RolloverStep ==
    [][ /\ (pc = "write" /\ rollovers' = rollovers + 1)
            => /\ rollovers' = 1
               /\ log_files' = Append(log_files, next_offset)
               /\ current_log_file'.base = next_offset
               /\ indexes' = indexes
               /\ \A b \in DOMAIN logs : logs'[b] = logs[b]
        /\ (pc = "write" /\ rollovers >= 1)
            => /\ pc' = "idle"
               /\ ret'.exc = "ok"
               /\ logs'[next_offset] =
                    << [offset |-> next_offset, size |-> payload.size,
                        data |-> payload.body] >>
               /\ \A b \in DOMAIN logs : b # next_offset => logs'[b] = logs[b]
               /\ last_offset' = last_offset + 1
               /\ current_log_file'.base = next_offset ]_vars

CeilDiv(a, b) == (a + b - 1) \div b

\* C11: the index of every segment has at most
\* ceil(segment_size / index_interval) + 1 entries, segment_size being the
\* byte size of the segment's .log file.
C11_IndexSparsity ==
    \A b \in DOMAIN indexes :
        Len(indexes[b]) <= CeilDiv(FileSize(logs[b]), index_interval) + 1

\* the selection _scan_log_files has to make: the largest base <= offset, then
\* every base in (offset, final]
RefSelection(lfs, offset, final) ==
    SelectSeq(lfs, LAMBDA b :
        \/ b <= offset /\ \A j \in 1..Len(lfs) : lfs[j] <= offset => lfs[j] <= b
        \/ offset < b /\ b <= final)

\* the entry of idx with the greatest relative offset <= target
FloorEntry(idx, target) ==
    CHOOSE e \in {idx[i] : i \in 1..Len(idx)} :
        /\ e.rel <= target
        /\ \A i \in 1..Len(idx) : idx[i].rel <= target => idx[i].rel <= e.rel

\* C16: for an ascending segment list starting at base 0 and a range
\* 0 <= offset <= final, _scan_log_files returns exactly the largest base
\* <= offset followed by the bases in (offset, final], in ascending order.
C16_ScanEqualsReference ==
    (ret.op = "scan" /\ ret.a <= ret.n)
        => ret.val = RefSelection(log_files, ret.a, ret.n)

\* C17: on a non-empty index and a target >= the first entry's relative
\* offset, search returns the entry with the greatest relative offset
\* <= target.
C17_IndexFloorMatch ==
    (ret.op = "search" /\ ret.a >= indexes[ret.n][1].rel)
        => (ret.exc = "ok" /\ ret.val = << FloorEntry(indexes[ret.n], ret.a) >>)

\* C18: search returns or raises after finitely many probes: no iteration
\* leaves the interval [floor_index, ceil_index] as it found it.
C18_SearchTerminates ==
    ret.op = "search" => ret.exc # "NoReturn"

\* C19: on a segment that holds records, search raises OffsetMissingInIndex
\* exactly when the target is below the first entry's relative offset, and
\* LogFile.get(offset) exactly when offset is below the segment's base; the
\* files are as they were.
C19_OffsetMissingInIndex ==
    [][ /\ ret'.op = "search"
            => (ret'.exc = "OffsetMissingInIndex"
                    <=> ret'.a < indexes[ret'.n][1].rel)
        /\ ret'.op = "log_get"
            => (ret'.exc = "OffsetMissingInIndex" <=> ret'.a < ret'.n)
        /\ ret'.exc = "OffsetMissingInIndex"
            => UNCHANGED << logs, indexes >> ]_vars

C19_Witness ==
    /\ ret.op = "log_get"
    /\ ret.exc = "OffsetMissingInIndex"
    /\ ret.n > 0
    /\ ret.a = ret.n - 1
    /\ Len(indexes[ret.n]) >= 2

\* C14: every get(k) of the reading instance for an offset k the writer has
\* appended returns the record of offset k, also when the record is in a
\* segment the writer created after the reader was constructed or had read.
C14_SeparateReader ==
    (ret.op = "reader_get" /\ Written(ret.a))
        => (ret.exc = "ok" /\ ret.val = << EventOf(ret.a) >>)

\* C21: with max_log_size the same in every lifetime of the engine, the byte
\* size of every segment's .log file is at most max_log_size.
C21_SegmentSizeBound ==
    \A b \in DOMAIN logs : FileSize(logs[b]) <= max_log_size

C21_Witness ==
    /\ pc = "idle"
    /\ max_log_size = 100
    /\ Cardinality(DOMAIN logs) = 2
    /\ \E b \in DOMAIN logs :
          /\ FileSize(logs[b]) + META_DATA_SIZE + 10 > max_log_size
          /\ \E c \in DOMAIN logs : c > b /\ logs[c] # << >>

\* C22: an append that LogFile.write refuses with LogSizeExceeded leaves the
\* segment's .log and .index files as they were (a file that did not exist
\* still does not exist) and the segment's last_index_size unchanged.
C22_RefusedAppendFrame ==
    pc = "write"
        => LET r == LogFile_write(current_log_file, next_offset, payload)
           IN r.exc = "LogSizeExceeded"
                => /\ r.logs = logs
                   /\ r.indexes = indexes
                   /\ r.lf = current_log_file

\* C23: the entries of every segment's index are strictly increasing in
\* relative_offset and strictly increasing in physical_position, also after
\* close/reopen followed by further appends to the tail segment.
C23_IndexMonotonic ==
    \A b \in DOMAIN indexes :
        \A i \in 1..(Len(indexes[b]) - 1) :
            /\ indexes[b][i].rel < indexes[b][i + 1].rel
            /\ indexes[b][i].pos < indexes[b][i + 1].pos

C23_Witness ==
    /\ pc = "idle"
    /\ reopens = 1
    /\ assigned # << >>
    /\ \E b \in DOMAIN indexes :
          /\ Len(indexes[b]) >= 2
          /\ b \in pre_bases
          /\ logs[b][Len(logs[b])].offset = assigned[Len(assigned)]

\* C24: the base offsets of the segments on disk are pairwise distinct; every
\* record offset stored in a segment is >= the segment's base and strictly
\* less than the base of every later segment.
C24_CrossSegmentOrdering ==
    /\ LET files == EventSource__get_log_initial_indexes
       IN \A i \in 1..Len(files) : \A j \in 1..Len(files) :
             i < j => files[i] < files[j]
    /\ \A b \in DOMAIN logs : \A i \in 1..Len(logs[b]) :
          /\ logs[b][i].offset >= b
          /\ \A c \in DOMAIN logs : c > b => logs[b][i].offset < c

C24_Witness ==
    /\ pc = "idle"
    /\ Cardinality(DOMAIN logs) = 2
    /\ \A b \in DOMAIN logs : logs[b] # << >>
    /\ \E b \in DOMAIN logs : Len(logs[b]) = 2 /\ b > 0

\* C25: every segment that holds at least one record has a non-empty index
\* whose first entry is (relative_offset 0, physical_position 0), and the first
\* record of its .log file has the segment's base offset.
C25_SegmentHead ==
    \A b \in DOMAIN logs :
        logs[b] # << >>
            => /\ b \in DOMAIN indexes
               /\ indexes[b] # << >>
               /\ indexes[b][1] = [rel |-> 0, pos |-> 0]
               /\ logs[b][1].offset = b

C25_Witness ==
    /\ pc = "idle"
    /\ reopens = 1
    /\ \E b \in DOMAIN logs :
          /\ b > 0
          /\ b \notin pre_bases
          /\ logs[b] # << >>
          /\ Len(indexes[b]) = 1

\* C26: on a segment holding at least one record, whatever the number of
\* records appended after the last index entry, get_last_offset returns the
\* offset of the final record of the .log file and modifies no file.
C26_TailRecovery ==
    [][ ret'.op = "get_last_offset"
            => /\ ret'.exc = "ok"
               /\ ret'.val = << logs[ret'.n][Len(logs[ret'.n])].offset >>
               /\ UNCHANGED << logs, indexes >> ]_vars

C26_Witness ==
    /\ ret.op = "get_last_offset"
    /\ ret.exc = "ok"
    /\ ret.n > 0
    /\ LET idx == indexes[ret.n]
       IN Len(logs[ret.n]) >= idx[Len(idx)].rel + 3

\* C27: LogFile.get(offset, offset_end) with an explicit offset_end other than
\* -1 returns exactly the records of the segment whose offset lies in
\* [offset, offset_end], in ascending order; none when offset_end < offset.
C27_SegmentRangeRead ==
    (ret.op = "log_get_range" /\ ret.exc = "ok")
        => ret.val = SelectSeq(logs[ret.n],
                               LAMBDA r : ret.a <= r.offset /\ r.offset <= ret.e)

\* C28: no operation (write, rollover, get, get_batch, close/reopen) changes
\* the .log or the .index file of a segment other than the one with the
\* largest base offset.
C28_ImmutableAfterRollover ==
    [][ \A b \in DOMAIN logs :
            (\E c \in DOMAIN logs' : c > b)
                => /\ b \in DOMAIN logs'
                   /\ logs'[b] = logs[b]
                   /\ (b \in DOMAIN indexes) = (b \in DOMAIN indexes')
                   /\ b \in DOMAIN indexes => indexes'[b] = indexes[b] ]_vars

C28_Witness ==
    /\ pc = "idle"
    /\ reopens = 1
    /\ Cardinality(pre_bases) = 2
    /\ \A b \in pre_bases : logs[b] # << >>
    /\ assigned # << >>
    /\ rollovers = 0

\* C29: when the writer stops after a record's bytes were appended to the
\* active segment's .log file and before the corresponding index entry is
\* appended, a new EventSource on the directory is constructed without error
\* and recovers last_offset = that record's offset, so that the next write is
\* assigned the following offset.
C29_OrphanTailRecovery ==
    [][ (pc = "stopped" /\ pc' # "stopped")
            => /\ pc' = "idle"
               /\ ret'.exc = "ok"
               /\ last_offset' = next_offset
               /\ NextOffset(last_offset') = next_offset + 1 ]_vars

\* C30: with max_log_size the same in every lifetime of the engine, for two
\* segments adjacent in base order the size of the earlier .log plus 20 plus
\* the payload size of the later segment's first record exceeds max_log_size:
\* no segment is started while the record still fitted in the active one.
C30_RolloverOnlyWhenFull ==
    \A b \in DOMAIN logs : \A c \in DOMAIN logs :
        (b < c /\ logs[c] # << >> /\ ~ \E d \in DOMAIN logs : b < d /\ d < c)
            => FileSize(logs[b]) + META_DATA_SIZE + logs[c][1].size > max_log_size

C30_Witness ==
    /\ pc = "idle"
    /\ reopens >= 1
    /\ \E b \in DOMAIN logs : \E c \in DOMAIN logs :
          /\ b < c
          /\ c \notin pre_bases
          /\ logs[c] # << >>
          /\ FileSize(logs[b]) = 60

C32_SafeScanStart ==
    /\ (ret.op = "search" /\ ret.exc = "ok") => ret.val[1].rel <= ret.a
    /\ (ret.op = "log_get" /\ ret.exc = "ok")
          => \A i \in 1..Len(logs[ret.n]) :
                logs[ret.n][i].offset = ret.a => ret.val = << logs[ret.n][i] >>

C32_Witness ==
    /\ ret.op = "log_get"
    /\ ret.exc = "ok"
    /\ Len(indexes[ret.n]) >= 2
    /\ ret.a > ret.n + indexes[ret.n][Len(indexes[ret.n])].rel
    /\ ret.val # << >>

\* C33: between operations the instance's segment list _log_files is either
\* empty (not refreshed since the reopen) or the ascending list of the base
\* offsets of all segments of the store: the .log files on disk, or base 0 for
\* a bootstrapped log that has no file yet.  A rollover never leaves the list
\* holding only the new base.
C33_SegmentListTracksDisk ==
    pc = "idle"
        => \/ log_files = << >>
           \/ log_files = IF DOMAIN logs = {} THEN << 0 >>
                          ELSE SortedSeq(DOMAIN logs)

====
